---- MODULE Spec2Model ----
(***************************************************************************)
(* Model of pre_commit_vauxoo.py: the shell-export parser                  *)
(* (re_export, envfile2envdict), the configuration distributor             *)
(* (copy_cfg_files), the check orchestrator (main) and the summary         *)
(* reporter (print_summary).                                               *)
(*                                                                         *)
(* Text is modelled as a sequence of one-character strings so that the     *)
(* regular expression, str.split, str.strip, str.replace, re.escape and    *)
(* the "in" / startswith tests are computed character by character.        *)
(***************************************************************************)
EXTENDS Integers, Sequences, FiniteSets, TLC

VARIABLES
    entry,          \* the function under execution: main, copy_cfg_files or envfile2envdict
    pc,             \* position inside that function
    \* ---- envfile2envdict
    source_isfile,  \* os.path.isfile(source_file_path)
    line,           \* the line the for loop of envfile2envdict is at
    lines_read,     \* number of lines the loop has consumed
    envdict,        \* dict, in insertion order: sequence of <<key, value>>
    \* ---- copy_cfg_files
    template,       \* entries of precommit_config_dir: set of [name, kind, content]
    repo,           \* entries of repo_dirname
    repo0,          \* the entries of repo_dirname when copy_cfg_files was called
    overwrite,
    exclude_lint,
    disable_pylint_checks,
    \* ---- main
    do_exit,        \* the do_exit argument
    cwd,            \* os.getcwd()
    variables_sh,   \* <repo>/variables.sh: [exists, lines]
    environ0,       \* os.environ as inherited: set of <<name, value>>
    environ,        \* os.environ
    env_writes,     \* number of calls that wrote os.environ
    enable_auto_fix,
    files,          \* result of get_files(cwd)
    cmd,            \* the "pre-commit run" command line being built
    trace,          \* external steps taken so far, in order
    hooks_failed,   \* some install-hooks call returned non-zero
    status,
    autofix_status,
    mandatory_status,
    status_optional,
    all_status,     \* dict in insertion order: sequence of tier results
    summary,        \* rows logged by print_summary
    raised,         \* name of the exception that left the function, or ""
    exit_code,      \* {} while running, {c} after sys.exit(c)
    result,         \* what the finished call gave its caller: {} is None
    prev            \* outcome of the previous completed run

parseVars == <<source_isfile, line, lines_read, envdict>>
copyVars == <<template, repo, repo0, overwrite, exclude_lint, disable_pylint_checks>>
envVars == <<variables_sh, environ0, environ, env_writes>>
runVars == <<do_exit, cwd, enable_auto_fix, files, cmd, trace, hooks_failed, status,
             autofix_status, mandatory_status, status_optional, all_status, summary,
             raised, exit_code, result>>
mainVars == <<envVars, runVars, prev>>
vars == <<entry, pc, parseVars, copyVars, mainVars>>

----------------------------------------------------------------------------
(* Bounds *)

\* longest variables.sh the parser loop reads
MaxLines == 2

\* longest .pre-commit-config.yaml template
MaxTemplateLines == 2

\* most files git ls-files reports under the current directory
MaxFiles == 1

\* largest exit code a subprocess returns
MaxRet == 1

\* largest signal number that ends a subprocess; subprocess.call returns -N
\* for a child killed by signal N
MaxSignal == 1

----------------------------------------------------------------------------
(* Characters and strings *)

WordChars ==
    {"a", "b", "c", "d", "e", "f", "g", "h", "i", "j", "k", "l", "m", "n", "o",
     "p", "q", "r", "s", "t", "u", "v", "w", "x", "y", "z", "A", "B", "C", "D",
     "E", "F", "G", "H", "I", "J", "K", "L", "M", "N", "O", "P", "Q", "R", "S",
     "T", "U", "V", "W", "X", "Y", "Z", "0", "1", "2", "3", "4", "5", "6", "7",
     "8", "9", "_"}

\* [\w\.\-\_/\$\{\}\:,\(\)\#\* ]
ValueChars ==
    WordChars \cup {".", "-", "_", "/", "$", "{", "}", ":", ",", "(", ")", "#", "*", " "}

QuoteChars == {"\"", "'"}

\* the characters str.strip() removes
WhitespaceChars == {" ", "\t", "\n", "\r", "\f"}

Drop(s, n) == SubSeq(s, n + 1, Len(s))

\* s.startswith(p)
StartsWith(s, p) == Len(p) <= Len(s) /\ SubSeq(s, 1, Len(p)) = p

\* t in s
Contains(s, t) ==
    \E i \in 1..(Len(s) - Len(t) + 1) : SubSeq(s, i, i + Len(t) - 1) = t

\* number of consecutive characters of s, from index i on, that belong to C
RECURSIVE SpanLen(_, _, _)
SpanLen(s, i, C) ==
    IF i <= Len(s) /\ s[i] \in C THEN 1 + SpanLen(s, i + 1, C) ELSE 0

----------------------------------------------------------------------------
(* re_export *)

export == <<"e", "x", "p", "o", "r", "t">>
EXPORT == <<"E", "X", "P", "O", "R", "T">>

NoMatch == [matched |-> FALSE, variable |-> <<>>, value |-> <<>>]

\* re_export with re.IGNORECASE on the keyword
re_export_match_anycase(text) ==
    LET iSp   == Len(export) + 1
        nSp   == SpanLen(text, iSp, {" "})
        iVar  == iSp + nSp
        nVar  == SpanLen(text, iVar, WordChars)
        iSp2  == iVar + nVar
        iEq   == iSp2 + SpanLen(text, iSp2, {" "})
        iSp3  == iEq + 1
        iQ    == iSp3 + SpanLen(text, iSp3, {" "})
        iVal  == IF iQ <= Len(text) /\ text[iQ] \in QuoteChars THEN iQ + 1 ELSE iQ
        nVal  == SpanLen(text, iVal, ValueChars)
    IN  IF /\ Len(text) >= Len(export)
           /\ \A i \in 1..Len(export) : text[i] \in {export[i], EXPORT[i]}
           /\ nSp >= 1
           /\ iEq <= Len(text)
           /\ text[iEq] = "="
        THEN [matched  |-> TRUE,
              variable |-> SubSeq(text, iVar, iVar + nVar - 1),
              value    |-> SubSeq(text, iVal, iVal + nVal - 1)]
        ELSE NoMatch

\* re_export.match(text): the pattern is anchored at the start of the text;
\* every quantifier is greedy and none can give characters back, so the match
\* is a single left-to-right scan.
re_export_match(text) ==
    LET iSp   == Len(export) + 1
        nSp   == SpanLen(text, iSp, {" "})
        iVar  == iSp + nSp
        nVar  == SpanLen(text, iVar, WordChars)
        iSp2  == iVar + nVar
        iEq   == iSp2 + SpanLen(text, iSp2, {" "})
        iSp3  == iEq + 1
        iQ    == iSp3 + SpanLen(text, iSp3, {" "})
        iVal  == IF iQ <= Len(text) /\ text[iQ] \in QuoteChars THEN iQ + 1 ELSE iQ
        nVal  == SpanLen(text, iVal, ValueChars)
    IN  IF /\ StartsWith(text, export) \/ StartsWith(text, EXPORT)
           /\ nSp >= 1
           /\ iEq <= Len(text)
           /\ text[iEq] = "="
        THEN [matched  |-> TRUE,
              variable |-> SubSeq(text, iVar, iVar + nVar - 1),
              value    |-> SubSeq(text, iVal, iVal + nVal - 1)]
        ELSE NoMatch

----------------------------------------------------------------------------
(* dict *)

DictHas(d, k) == \E i \in 1..Len(d) : d[i][1] = k

DictGet(d, k) == d[CHOOSE i \in 1..Len(d) : d[i][1] = k][2]

\* envdict.update keeping the first value of a key instead of the last
DictUpdateKeepFirst(d, k, v) ==
    IF DictHas(d, k) THEN d ELSE Append(d, <<k, v>>)

\* d.update({k: v}): an existing key keeps its position, a new one is appended
DictUpdate(d, k, v) ==
    IF DictHas(d, k)
    THEN [i \in 1..Len(d) |-> IF d[i][1] = k THEN <<k, v>> ELSE d[i]]
    ELSE Append(d, <<k, v>>)

----------------------------------------------------------------------------
(* Lines of variables.sh *)

\* A line is written down by its parts; Text is the line as the file holds it.
Text(l) ==
    l.kw \o l.sep1 \o l.name \o l.sep2 \o <<"=">> \o l.sep3 \o l.oq \o l.value \o l.cq \o l.tail

NoLine ==
    [kw |-> <<>>, sep1 |-> <<>>, name |-> <<>>, sep2 |-> <<>>, sep3 |-> <<>>,
     oq |-> <<>>, value |-> <<>>, cq |-> <<>>, tail |-> <<>>]

\* the lines the parser is run on: each part in a well-formed and in
\* ill-formed variants
ParserKeywords == {export, EXPORT, <<"E", "x", "p", "o", "r", "t">>}
ParserSeps == {<<>>, <<" ">>, <<"\t">>}

ParserNames == {<<>>, <<"A", "_", "1">>, <<"A", "-", "B">>}
\* <<opening quote, value, closing quote>>
ParserValues ==
    {<<<<>>, <<"b", " ", "c">>, <<>>>>,
     <<<<"\"">>, <<"b", " ", "c">>, <<"'">>>>,
     <<<<>>, <<"b", "+", "c">>, <<>>>>}

ParserLines ==
    {[kw |-> k, sep1 |-> s1, name |-> n, sep2 |-> s2, sep3 |-> s3,
      oq |-> v[1], value |-> v[2], cq |-> v[3], tail |-> <<"\n">>] :
        k \in ParserKeywords, s1 \in ParserSeps, n \in ParserNames,
        s2 \in ParserSeps, s3 \in ParserSeps, v \in ParserValues}

\* one iteration of "for line in f_source_file" (lines 76-80)
envdict_after_line(d, l) ==
    LET line_match == re_export_match(Text(l))
    IN  IF ~line_match.matched
        THEN d
        ELSE DictUpdate(d, line_match.variable, line_match.value)

----------------------------------------------------------------------------
(* str and re helpers of copy_cfg_files *)

RECURSIVE Concat(_)
Concat(ss) == IF ss = <<>> THEN <<>> ELSE Head(ss) \o Concat(Tail(ss))

\* sep.join(parts)
RECURSIVE Join(_, _)
Join(parts, sep) ==
    IF parts = <<>> THEN <<>>
    ELSE IF Len(parts) = 1 THEN Head(parts)
    ELSE Head(parts) \o sep \o Join(Tail(parts), sep)

\* s.split(c) for a one-character separator
RECURSIVE Split(_, _)
Split(s, c) ==
    IF \E i \in 1..Len(s) : s[i] = c
    THEN LET i == CHOOSE j \in 1..Len(s) : s[j] = c /\ \A k \in 1..(j - 1) : s[k] # c
         IN  <<SubSeq(s, 1, i - 1)>> \o Split(Drop(s, i), c)
    ELSE <<s>>

\* s.strip()
Strip(s) ==
    LET lead  == SpanLen(s, 1, WhitespaceChars)
        rest  == Drop(s, lead)
        keep  == IF rest = <<>> THEN 0
                 ELSE CHOOSE n \in 1..Len(rest) :
                        /\ ~(rest[n] \in WhitespaceChars)
                        /\ \A k \in (n + 1)..Len(rest) : rest[k] \in WhitespaceChars
    IN  SubSeq(rest, 1, keep)

\* s.replace(old, new), old not empty
RECURSIVE Replace(_, _, _)
Replace(s, old, new) ==
    IF s = <<>> THEN <<>>
    ELSE IF StartsWith(s, old) THEN new \o Replace(Drop(s, Len(old)), old, new)
    ELSE <<Head(s)>> \o Replace(Tail(s), old, new)

\* the characters re.escape puts a backslash before
ReSpecialChars ==
    {"(", ")", "[", "]", "{", "}", "?", "*", "+", "-", "|", "^", "$", "\\", ".",
     "&", "~", "#", " ", "\t", "\n", "\r", "\f"}

RECURSIVE re_escape(_)
re_escape(s) ==
    IF s = <<>> THEN <<>>
    ELSE (IF Head(s) \in ReSpecialChars THEN <<"\\", Head(s)>> ELSE <<Head(s)>>)
         \o re_escape(Tail(s))

\* lines 32-40
exclude_regex_of(excl) ==
    IF excl = <<>> THEN <<>>
    ELSE LET Kept(exclude_path) == exclude_path # <<>> /\ Strip(exclude_path) # <<>>
             kept == SelectSeq(Split(excl, ","), Kept)
             escaped == [i \in 1..Len(kept) |-> re_escape(Strip(kept[i]))]
         IN  <<"(">> \o Join(escaped, <<"|">>) \o <<")", "|">>

----------------------------------------------------------------------------
(* copy_cfg_files *)

EXCLUDE_LINT_MARKER == <<"#", " ", "E", "X", "C", "L", "U", "D", "E", "_", "L", "I", "N", "T">>
DISABLE_PLACEHOLDER == <<"-", "-", "d", "i", "s", "a", "b", "l", "e", "=", "R", "0", "0", "0", "0">>
R0000 == <<"R", "0", "0", "0", "0">>
PRE_COMMIT_CONFIG_PREFIX ==
    <<".", "p", "r", "e", "-", "c", "o", "m", "m", "i", "t", "-", "c", "o", "n", "f", "i", "g">>
PYPROJECT_TOML == <<"p", "y", "p", "r", "o", "j", "e", "c", "t", ".", "t", "o", "m", "l">>

\* os.path.isfile(os.path.join(dir, fname))
IsFile(dir, fname) == \E e \in dir : e.name = fname /\ e.kind = "file"
IsDir(dir, fname) == \E e \in dir : e.name = fname /\ e.kind = "dir"
EntryOf(dir, fname) == CHOOSE e \in dir : e.name = fname

\* line 43 negated: the entry is a configuration file name
IsCfgName(fname) == StartsWith(fname, <<".">>) \/ fname = PYPROJECT_TOML

\* copied_line without the file-name test on the exclusion substitution
copied_line_any_file(fname, ln, excl, disable) ==
    LET l1 == IF /\ excl # <<>>
                 /\ Contains(ln, EXCLUDE_LINT_MARKER)
              THEN <<" ", " ", " ", " ">> \o exclude_regex_of(excl) \o <<"\n">>
              ELSE ln
    IN  IF /\ disable # <<>>
           /\ StartsWith(fname, PRE_COMMIT_CONFIG_PREFIX)
           /\ Contains(l1, DISABLE_PLACEHOLDER)
        THEN Replace(l1, R0000, disable)
        ELSE l1

\* lines 57-61: the line written for a line read
copied_line(fname, ln, excl, disable) ==
    LET l1 == IF /\ excl # <<>>
                 /\ StartsWith(fname, PRE_COMMIT_CONFIG_PREFIX)
                 /\ Contains(ln, EXCLUDE_LINT_MARKER)
              THEN <<" ", " ", " ", " ">> \o exclude_regex_of(excl) \o <<"\n">>
              ELSE ln
    IN  IF /\ disable # <<>>
           /\ StartsWith(fname, PRE_COMMIT_CONFIG_PREFIX)
           /\ Contains(l1, DISABLE_PLACEHOLDER)
        THEN Replace(l1, R0000, disable)
        ELSE l1

\* lines 55-62
copied_content(fname, content, excl, disable) ==
    [i \in 1..Len(content) |-> copied_line(fname, content[i], excl, disable)]

\* to_write without the "not overwrite and isfile(dst)" skip
to_write_always(tmpl, dir, ovw) ==
    {t \in tmpl : IsCfgName(t.name) /\ t.kind = "file"}

\* lines 43-54: the template entries the loop opens a destination for
to_write(tmpl, dir, ovw) ==
    {t \in tmpl : /\ IsCfgName(t.name)
                  /\ t.kind = "file"
                  /\ ~(~ovw /\ IsFile(dir, t.name))}

\* the directory after the entries of W have been written
dir_after(dir, W, excl, disable) ==
    {e \in dir : ~\E t \in W : t.name = e.name}
    \cup {[name |-> t.name, kind |-> "file",
           content |-> copied_content(t.name, t.content, excl, disable)] : t \in W}

----------------------------------------------------------------------------
(* Directories and inputs copy_cfg_files is run on *)

File(n, c) == [name |-> n, kind |-> "file", content |-> c]
Dir(n) == [name |-> n, kind |-> "dir", content |-> <<>>]

PRE_COMMIT_CONFIG_YAML == PRE_COMMIT_CONFIG_PREFIX \o <<".", "y", "a", "m", "l">>
FLAKE8 == <<".", "f", "l", "a", "k", "e", "8">>
README_MD == <<"R", "E", "A", "D", "M", "E", ".", "m", "d">>
DOT_GITHUB == <<".", "g", "i", "t", "h", "u", "b">>

MarkerLine == <<" ", " ", " ", " ">> \o EXCLUDE_LINT_MARKER \o <<"\n">>
DisableLine == <<" ", " ">> \o DISABLE_PLACEHOLDER \o <<",", "\n">>
PlainLine == <<"r", "e", "p", "o", "s", ":", "\n">>
MarkerAndDisableLine == EXCLUDE_LINT_MARKER \o <<" ">> \o DISABLE_PLACEHOLDER \o <<"\n">>
CustomLine == <<"c", "u", "s", "t", "o", "m", "\n">>

TemplateLinePool == {MarkerLine, DisableLine, PlainLine, MarkerAndDisableLine}

TemplateContents == UNION {[1..n -> TemplateLinePool] : n \in 0..MaxTemplateLines}

\* a template directory: the patched configuration file, a hidden file of
\* another name holding the same marker and placeholder, pyproject.toml, a
\* file that is not a configuration file, and a hidden directory
TemplateDir(c) ==
    {File(PRE_COMMIT_CONFIG_YAML, c),
     File(FLAKE8, <<MarkerLine, DisableLine>>),
     File(PYPROJECT_TOML, <<PlainLine>>),
     File(README_MD, <<PlainLine>>),
     Dir(DOT_GITHUB)}

\* target directories: each destination missing or customised; pyproject.toml
\* may also be a directory, which open(dst, "w") cannot write
RepoDirs ==
    {a \cup b \cup c \cup d :
        a \in {{}, {File(PRE_COMMIT_CONFIG_YAML, <<CustomLine>>)}},
        b \in {{}, {File(DOT_GITHUB, <<CustomLine>>)}},
        c \in {{}, {File(PYPROJECT_TOML, <<CustomLine>>)}, {Dir(PYPROJECT_TOML)}},
        d \in {{}, {File(README_MD, <<CustomLine>>)}}}

\* EXCLUDE_LINT values, each written as its comma-separated entries:
\* <<leading whitespace, path, trailing whitespace>>
ExcludeEntries ==
    {<<>>,
     << <<<<>>, <<"f", "o", "o">>, <<>>>>, <<<<" ">>, <<"b", "a", "r">>, <<>>>> >>,
     << <<<<" ">>, <<>>, <<>>>>, <<<<" ">>, <<>>, <<>>>> >>,
     << <<<<>>, <<"a", ".", "b">>, <<" ">>>>, <<<<>>, <<>>, <<>>>>, <<<<>>, EXCLUDE_LINT_MARKER, <<>>>> >>}

ExcludeText(entries) ==
    Join([i \in 1..Len(entries) |-> Concat(entries[i])], <<",">>)

ExcludeLintValues == {ExcludeText(x) : x \in ExcludeEntries}

DisableValues ==
    {<<>>, <<"C", "0", "1", "1", "4">>, <<"W", "1", ",">> \o EXCLUDE_LINT_MARKER}

----------------------------------------------------------------------------
(* main: constants and helpers *)

PRECOMMIT_OVERWRITE_CONFIG_FILES ==
    <<"P", "R", "E", "C", "O", "M", "M", "I", "T", "_", "O", "V", "E", "R", "W", "R",
      "I", "T", "E", "_", "C", "O", "N", "F", "I", "G", "_", "F", "I", "L", "E", "S">>
EXCLUDE_LINT == <<"E", "X", "C", "L", "U", "D", "E", "_", "L", "I", "N", "T">>
DISABLE_PYLINT_CHECKS ==
    <<"D", "I", "S", "A", "B", "L", "E", "_", "P", "Y", "L", "I", "N", "T", "_",
      "C", "H", "E", "C", "K", "S">>
PRECOMMIT_AUTOFIX ==
    <<"P", "R", "E", "C", "O", "M", "M", "I", "T", "_", "A", "U", "T", "O", "F", "I", "X">>

\* get_repo()
repo_dirname == "/repo"

\* os.path.join(repo_dirname, ...), lines 118-120
pre_commit_cfg_mandatory == "/repo/.pre-commit-config.yaml"
pre_commit_cfg_optional == "/repo/.pre-commit-config-optional.yaml"
pre_commit_cfg_autofix == "/repo/.pre-commit-config-autofix.yaml"

\* what subprocess.call can return
RetCodes == (0 - MaxSignal)..MaxRet

\* os.environ.get(name, default)
EnvironHas(env, name) == \E p \in env : p[1] = name
EnvironGet(env, name, default) ==
    IF EnvironHas(env, name) THEN (CHOOSE p \in env : p[1] = name)[2] ELSE default

\* os.environ[name] = value
EnvironSet(env, name, value) == {p \in env : p[1] # name} \cup {<<name, value>>}

\* envfile2envdict (lines 69-81) on a whole file
RECURSIVE envdict_of_lines(_, _)
envdict_of_lines(d, lines) ==
    IF lines = <<>> THEN d
    ELSE envdict_of_lines(envdict_after_line(d, Head(lines)), Tail(lines))

envfile2envdict(f) == IF ~f.exists THEN <<>> ELSE envdict_of_lines(<<>>, f.lines)

\* os.environ.update(d), line 95: the keys are set in the dict's order, and
\* setting an empty name raises
RECURSIVE environ_update(_, _)
environ_update(env, d) ==
    IF d = <<>> THEN [env |-> env, ok |-> TRUE]
    ELSE IF Head(d)[1] = <<>> THEN [env |-> env, ok |-> FALSE]
    ELSE environ_update(EnvironSet(env, Head(d)[1], Head(d)[2]), Tail(d))

\* lines 117, 121-124
install_cmd(cfg) == <<"pre-commit", "install-hooks", "--color=always", "-c", cfg>>

\* line 189
exit_code_of(st) == IF st = 0 THEN 0 ELSE 1

\* lines 143-153
autofix_result(rc) ==
    [test_name |-> "Autofix checks", status |-> rc,
     level |-> IF rc # 0 THEN "ERROR" ELSE "INFO",
     status_msg |-> IF rc # 0 THEN "Reformatted" ELSE "Passed"]

\* the mandatory tier judged by its own exit code
mandatory_result_own(st, rc) ==
    [test_name |-> "Mandatory checks", status |-> rc,
     level |-> IF rc # 0 THEN "ERROR" ELSE "INFO",
     status_msg |-> IF rc # 0 THEN "Failed" ELSE "Passed"]

\* lines 160-169; st is status after line 159
mandatory_result(st, rc) ==
    [test_name |-> "Mandatory checks", status |-> rc,
     level |-> IF st # 0 THEN "ERROR" ELSE "INFO",
     status_msg |-> IF st # 0 THEN "Failed" ELSE "Passed"]

\* lines 175-184
optional_result(rc) ==
    [test_name |-> "Optional checks", status |-> rc,
     level |-> IF rc # 0 THEN "WARNING" ELSE "INFO",
     status_msg |-> IF rc # 0 THEN "Failed" ELSE "Passed"]

\* status += status_optional
status_plus_optional(st, rc) == st + rc

\* lines 174-176: the optional tier's exit code goes to status_optional and
\* status keeps its value
status_after_optional(st, rc) == st

\* "if not files" never true
no_files_never(fs) == FALSE

\* line 132
no_files(fs) == fs = <<>>

\* the autofix hooks installed whatever PRECOMMIT_AUTOFIX is
after_install_optional_always(enable) == "install_autofix"

\* line 123: where main goes after the second install-hooks call
after_install_optional(enable) == IF enable THEN "install_autofix" ELSE "scope"

\* all_status[test_name] = r
StatusSet(all, r) ==
    IF \E i \in 1..Len(all) : all[i].test_name = r.test_name
    THEN [i \in 1..Len(all) |-> IF all[i].test_name = r.test_name THEN r ELSE all[i]]
    ELSE Append(all, r)

\* print_summary, lines 196-202: one row per tier, the outcome being the
\* status message in the colour of the level
summary_rows(all) ==
    [i \in 1..Len(all) |->
        [test_name |-> all[i].test_name,
         outcome |-> <<all[i].status_msg, all[i].level>>]]

----------------------------------------------------------------------------
(* Inputs of main *)

Q1 == <<"\"">>
Q2 == <<"'">>

Ln(k, s1, n, s2, s3, q, v) ==
    [kw |-> k, sep1 |-> s1, name |-> n, sep2 |-> s2, sep3 |-> s3,
     oq |-> q, value |-> v, cq |-> q, tail |-> <<"\n">>]

\* lines a variables.sh is made of
MainLines ==
    {Ln(export, <<" ">>, PRECOMMIT_AUTOFIX, <<>>, <<>>, <<>>, <<"1">>),
     Ln(EXPORT, <<" ">>, PRECOMMIT_AUTOFIX, <<" ">>, <<" ">>, Q1, <<"0">>),
     Ln(export, <<" ">>, EXCLUDE_LINT, <<>>, <<>>, Q2, <<"f", "o", "o", ",", " ", "b", "a", "r">>),
     Ln(export, <<" ">>, <<>>, <<>>, <<>>, <<>>, <<"x">>)}

VariablesShFiles ==
    {[exists |-> FALSE, lines |-> <<>>]}
    \cup {[exists |-> TRUE, lines |-> ls] :
            ls \in UNION {[1..n -> MainLines] : n \in 0..MaxLines}}

InheritedEnvs ==
    {{},
     {<<PRECOMMIT_AUTOFIX, <<"1">>>>, <<DISABLE_PYLINT_CHECKS, <<"C", "0", "1", "1", "4">>>>,
      <<PRECOMMIT_OVERWRITE_CONFIG_FILES, <<"0">>>>, <<EXCLUDE_LINT, <<"a", ".", "b">>>>}}

MainTemplate == TemplateDir(<<PlainLine, MarkerLine, DisableLine>>)

MainRepoDirs == {{}, {Dir(PYPROJECT_TOML)}}

\* tracked files under the sub-directory, as git ls-files lists them
TrackedFiles == <<"sub/a.py", "sub/b.py", "sub/c.py", "sub/d.py">>
FileLists == {SubSeq(TrackedFiles, 1, n) : n \in 0..MaxFiles}

NoPrev ==
    [valid |-> FALSE, enable_auto_fix |-> FALSE, autofix_status |-> 0,
     mandatory_status |-> 0, optional_failed |-> FALSE, hooks_failed |-> FALSE,
     exit_code |-> {}]

----------------------------------------------------------------------------
(* Initial states *)

ParseIdle ==
    /\ source_isfile = FALSE
    /\ line = NoLine
    /\ lines_read = 0
    /\ envdict = <<>>

CopyIdle ==
    /\ template = {}
    /\ repo = {}
    /\ repo0 = {}
    /\ overwrite = TRUE
    /\ exclude_lint = <<>>
    /\ disable_pylint_checks = <<>>

RunFresh ==
    /\ enable_auto_fix = FALSE
    /\ files = <<>>
    /\ cmd = <<>>
    /\ trace = <<>>
    /\ hooks_failed = FALSE
    /\ status = 0
    /\ autofix_status = 0
    /\ mandatory_status = 0
    /\ status_optional = 0
    /\ all_status = <<>>
    /\ summary = <<>>
    /\ raised = ""
    /\ exit_code = {}
    /\ result = {}

MainIdle ==
    /\ do_exit = TRUE
    /\ cwd = repo_dirname
    /\ variables_sh = [exists |-> FALSE, lines |-> <<>>]
    /\ environ0 = {}
    /\ environ = {}
    /\ env_writes = 0
    /\ RunFresh
    /\ prev = NoPrev

InitCopy ==
    /\ entry = "copy_cfg_files"
    /\ pc = "copy"
    /\ template \in {TemplateDir(c) : c \in TemplateContents}
    /\ repo \in RepoDirs
    /\ repo0 = repo
    /\ overwrite \in BOOLEAN
    /\ exclude_lint \in ExcludeLintValues
    /\ disable_pylint_checks \in DisableValues
    /\ ParseIdle
    /\ MainIdle

InitParse ==
    /\ entry = "envfile2envdict"
    /\ pc = "env_isfile"
    /\ source_isfile \in BOOLEAN
    /\ line = NoLine
    /\ lines_read = 0
    /\ envdict = <<>>
    /\ CopyIdle
    /\ MainIdle

InitMain ==
    /\ entry = "main"
    /\ pc = "start"
    /\ do_exit \in BOOLEAN
    /\ cwd \in {repo_dirname, "/repo/sub"}
    /\ variables_sh \in VariablesShFiles
    /\ environ0 \in InheritedEnvs
    /\ environ = environ0
    /\ env_writes = 0
    /\ template = MainTemplate
    /\ repo \in MainRepoDirs
    /\ repo0 = repo
    /\ overwrite = TRUE
    /\ exclude_lint = <<>>
    /\ disable_pylint_checks = <<>>
    /\ ParseIdle
    /\ RunFresh
    /\ prev = NoPrev

\* repeated runs from the repository root, told apart only by what the
\* subprocesses return and by PRECOMMIT_AUTOFIX
InitRuns ==
    /\ entry = "main"
    /\ pc = "start"
    /\ do_exit = TRUE
    /\ cwd = repo_dirname
    /\ variables_sh = [exists |-> FALSE, lines |-> <<>>]
    /\ environ0 \in {{}, {<<PRECOMMIT_AUTOFIX, <<"1">>>>}}
    /\ environ = environ0
    /\ env_writes = 0
    /\ template = MainTemplate
    /\ repo = {}
    /\ repo0 = repo
    /\ overwrite = TRUE
    /\ exclude_lint = <<>>
    /\ disable_pylint_checks = <<>>
    /\ ParseIdle
    /\ RunFresh
    /\ prev = NoPrev

----------------------------------------------------------------------------
(* copy_cfg_files *)

\* open(dst, "w") raises when dst is a directory
Unwritable(dir, W) == {t \in W : IsDir(dir, t.name)}

\* lines 31-62, every open succeeding
CopyCfgFiles ==
    /\ pc = "copy"
    /\ LET W == to_write(template, repo, overwrite)
       IN  /\ Unwritable(repo, W) = {}
           /\ repo' = dir_after(repo, W, exclude_lint, disable_pylint_checks)
    /\ trace' = Append(trace, <<"copy_cfg_files">>)
    /\ pc' = IF entry = "main" THEN "install_mandatory" ELSE "copy_returned"
    /\ UNCHANGED <<entry, parseVars, template, repo0, overwrite, exclude_lint,
                   disable_pylint_checks, envVars, prev>>
    /\ UNCHANGED <<do_exit, cwd, enable_auto_fix, files, cmd, hooks_failed, status,
                   autofix_status, mandatory_status, status_optional, all_status,
                   summary, raised, exit_code, result>>

\* lines 31-62, an open raising: os.listdir gives the entries in no particular
\* order, so any of the other entries may have been written before
CopyCfgFilesRaises ==
    /\ pc = "copy"
    /\ LET W == to_write(template, repo, overwrite)
       IN  /\ Unwritable(repo, W) # {}
           /\ \E done \in SUBSET (W \ Unwritable(repo, W)) :
                repo' = dir_after(repo, done, exclude_lint, disable_pylint_checks)
    /\ trace' = Append(trace, <<"copy_cfg_files">>)
    /\ pc' = "raised"
    /\ raised' = "IsADirectoryError"
    /\ UNCHANGED <<entry, parseVars, template, repo0, overwrite, exclude_lint,
                   disable_pylint_checks, envVars, prev>>
    /\ UNCHANGED <<do_exit, cwd, enable_auto_fix, files, cmd, hooks_failed, status,
                   autofix_status, mandatory_status, status_optional, all_status,
                   summary, exit_code, result>>

NextCopy == CopyCfgFiles \/ CopyCfgFilesRaises

SpecCopy == InitCopy /\ [][NextCopy]_vars

----------------------------------------------------------------------------
(* envfile2envdict, line by line *)

\* lines 71-73: the file is missing, the empty dict is returned
EnvFileMissing ==
    /\ pc = "env_isfile"
    /\ ~source_isfile
    /\ pc' = "env_returned"
    /\ UNCHANGED <<entry, parseVars, copyVars, mainVars>>

\* line 74
EnvFileOpen ==
    /\ pc = "env_isfile"
    /\ source_isfile
    /\ pc' = "env_loop"
    /\ UNCHANGED <<entry, parseVars, copyVars, mainVars>>

\* lines 76-80
EnvReadLine ==
    /\ pc = "env_loop"
    /\ lines_read < MaxLines
    /\ \E l \in ParserLines :
        /\ line' = l
        /\ envdict' = envdict_after_line(envdict, l)
    /\ lines_read' = lines_read + 1
    /\ UNCHANGED <<entry, pc, source_isfile, copyVars, mainVars>>

\* line 81
EnvReturn ==
    /\ pc = "env_loop"
    /\ pc' = "env_returned"
    /\ UNCHANGED <<entry, parseVars, copyVars, mainVars>>

NextParse == EnvFileMissing \/ EnvFileOpen \/ EnvReadLine \/ EnvReturn

SpecParse == InitParse /\ [][NextParse]_vars

----------------------------------------------------------------------------
(* main *)

startedVars == <<entry, parseVars, copyVars, envVars, prev, do_exit, cwd>>

\* line 91: get_repo raises outside a git working tree
MainNotInRepo ==
    /\ entry = "main"
    /\ pc = "start"
    /\ trace' = Append(trace, <<"get_repo">>)
    /\ raised' = "CalledProcessError"
    /\ pc' = "raised"
    /\ UNCHANGED <<entry, parseVars, copyVars, envVars, prev>>
    /\ UNCHANGED <<do_exit, cwd, enable_auto_fix, files, cmd, hooks_failed, status,
                   autofix_status, mandatory_status, status_optional, all_status,
                   summary, exit_code, result>>

\* lines 91-95
MainLoadEnv ==
    /\ entry = "main"
    /\ pc = "start"
    /\ LET d == envfile2envdict(variables_sh)
           u == environ_update(environ, d)
       IN  /\ u.ok
           /\ envdict' = d
           /\ environ' = u.env
    /\ env_writes' = env_writes + 1
    /\ trace' = Append(trace, <<"get_repo">>)
    /\ pc' = "read_toggles"
    /\ UNCHANGED <<entry, source_isfile, line, lines_read, copyVars, variables_sh,
                   environ0, prev>>
    /\ UNCHANGED <<do_exit, cwd, enable_auto_fix, files, cmd, hooks_failed, status,
                   autofix_status, mandatory_status, status_optional, all_status,
                   summary, raised, exit_code, result>>

\* lines 91-95, os.environ.update raising on an empty variable name
MainLoadEnvRaises ==
    /\ entry = "main"
    /\ pc = "start"
    /\ LET d == envfile2envdict(variables_sh)
           u == environ_update(environ, d)
       IN  /\ ~u.ok
           /\ envdict' = d
           /\ environ' = u.env
    /\ env_writes' = env_writes + 1
    /\ trace' = Append(trace, <<"get_repo">>)
    /\ raised' = "OSError"
    /\ pc' = "raised"
    /\ UNCHANGED <<entry, source_isfile, line, lines_read, copyVars, variables_sh,
                   environ0, prev>>
    /\ UNCHANGED <<do_exit, cwd, enable_auto_fix, files, cmd, hooks_failed, status,
                   autofix_status, mandatory_status, status_optional, all_status,
                   summary, exit_code, result>>

\* lines 98-106
MainReadToggles ==
    /\ entry = "main"
    /\ pc = "read_toggles"
    /\ overwrite' = (EnvironGet(environ, PRECOMMIT_OVERWRITE_CONFIG_FILES, <<"1">>) = <<"1">>)
    /\ exclude_lint' = EnvironGet(environ, EXCLUDE_LINT, <<>>)
    /\ disable_pylint_checks' = EnvironGet(environ, DISABLE_PYLINT_CHECKS, <<>>)
    /\ enable_auto_fix' = (EnvironGet(environ, PRECOMMIT_AUTOFIX, <<>>) = <<"1">>)
    /\ pc' = "copy"
    /\ UNCHANGED <<entry, parseVars, template, repo, repo0, envVars, prev>>
    /\ UNCHANGED <<do_exit, cwd, files, cmd, trace, hooks_failed, status,
                   autofix_status, mandatory_status, status_optional, all_status,
                   summary, raised, exit_code, result>>

\* line 121: the call's return value is dropped
MainInstallMandatory ==
    /\ entry = "main"
    /\ pc = "install_mandatory"
    /\ \E rc \in RetCodes : hooks_failed' = (hooks_failed \/ rc # 0)
    /\ trace' = Append(trace, install_cmd(pre_commit_cfg_mandatory))
    /\ pc' = "install_optional"
    /\ UNCHANGED startedVars
    /\ UNCHANGED <<enable_auto_fix, files, cmd, status, autofix_status,
                   mandatory_status, status_optional, all_status, summary, raised,
                   exit_code, result>>

\* lines 122-123: the call's return value is dropped
MainInstallOptional ==
    /\ entry = "main"
    /\ pc = "install_optional"
    /\ \E rc \in RetCodes : hooks_failed' = (hooks_failed \/ rc # 0)
    /\ trace' = Append(trace, install_cmd(pre_commit_cfg_optional))
    /\ pc' = after_install_optional(enable_auto_fix)
    /\ UNCHANGED startedVars
    /\ UNCHANGED <<enable_auto_fix, files, cmd, status, autofix_status,
                   mandatory_status, status_optional, all_status, summary, raised,
                   exit_code, result>>

\* line 124: the call's return value is dropped
MainInstallAutofix ==
    /\ entry = "main"
    /\ pc = "install_autofix"
    /\ \E rc \in RetCodes : hooks_failed' = (hooks_failed \/ rc # 0)
    /\ trace' = Append(trace, install_cmd(pre_commit_cfg_autofix))
    /\ pc' = "scope"
    /\ UNCHANGED startedVars
    /\ UNCHANGED <<enable_auto_fix, files, cmd, status, autofix_status,
                   mandatory_status, status_optional, all_status, summary, raised,
                   exit_code, result>>

run_cmd == <<"pre-commit", "run", "--color=always">>

\* lines 126-128, 135-137
MainScopeAll ==
    /\ entry = "main"
    /\ pc = "scope"
    /\ cwd = repo_dirname
    /\ status' = 0
    /\ cmd' = Append(run_cmd, "--all")
    /\ all_status' = <<>>
    /\ pc' = IF enable_auto_fix THEN "autofix" ELSE "mandatory"
    /\ UNCHANGED startedVars
    /\ UNCHANGED <<enable_auto_fix, files, trace, hooks_failed, autofix_status,
                   mandatory_status, status_optional, summary, raised, exit_code,
                   result>>

\* lines 126-134, 137
MainScopeFiles ==
    /\ entry = "main"
    /\ pc = "scope"
    /\ cwd # repo_dirname
    /\ \E fs \in FileLists :
        /\ ~no_files(fs)
        /\ files' = fs
        /\ cmd' = run_cmd \o <<"--files">> \o fs
    /\ status' = 0
    /\ trace' = Append(trace, <<"get_files", cwd>>)
    /\ all_status' = <<>>
    /\ pc' = IF enable_auto_fix THEN "autofix" ELSE "mandatory"
    /\ UNCHANGED startedVars
    /\ UNCHANGED <<enable_auto_fix, hooks_failed, autofix_status,
                   mandatory_status, status_optional, summary, raised, exit_code,
                   result>>

\* lines 126-133: no tracked file under the current directory
MainScopeNoFiles ==
    /\ entry = "main"
    /\ pc = "scope"
    /\ cwd # repo_dirname
    /\ \E fs \in FileLists :
        /\ no_files(fs)
        /\ files' = fs
    /\ status' = 0
    /\ cmd' = run_cmd
    /\ trace' = Append(trace, <<"get_files", cwd>>)
    /\ raised' = "UserWarning"
    /\ pc' = "raised"
    /\ UNCHANGED startedVars
    /\ UNCHANGED <<enable_auto_fix, hooks_failed, autofix_status,
                   mandatory_status, status_optional, all_status, summary,
                   exit_code, result>>

\* lines 139-154
MainAutofix ==
    /\ entry = "main"
    /\ pc = "autofix"
    /\ \E rc \in RetCodes :
        /\ autofix_status' = rc
        /\ status' = status + rc
        /\ all_status' = StatusSet(all_status, autofix_result(rc))
    /\ trace' = Append(trace, cmd \o <<"-c", pre_commit_cfg_autofix>>)
    /\ pc' = "mandatory"
    /\ UNCHANGED startedVars
    /\ UNCHANGED <<enable_auto_fix, files, cmd, hooks_failed, mandatory_status,
                   status_optional, summary, raised, exit_code, result>>

\* lines 156-169
MainMandatory ==
    /\ entry = "main"
    /\ pc = "mandatory"
    /\ \E rc \in RetCodes :
        /\ mandatory_status' = rc
        /\ status' = status + rc
        /\ all_status' = StatusSet(all_status, mandatory_result(status + rc, rc))
    /\ trace' = Append(trace, cmd \o <<"-c", pre_commit_cfg_mandatory>>)
    /\ pc' = "optional"
    /\ UNCHANGED startedVars
    /\ UNCHANGED <<enable_auto_fix, files, cmd, hooks_failed, autofix_status,
                   status_optional, summary, raised, exit_code, result>>

\* lines 171-185
MainOptional ==
    /\ entry = "main"
    /\ pc = "optional"
    /\ \E rc \in RetCodes :
        /\ status_optional' = rc
        /\ status' = status_after_optional(status, rc)
        /\ all_status' = StatusSet(all_status, optional_result(rc))
    /\ trace' = Append(trace, cmd \o <<"-c", pre_commit_cfg_optional>>)
    /\ pc' = "summary"
    /\ UNCHANGED startedVars
    /\ UNCHANGED <<enable_auto_fix, files, cmd, hooks_failed, autofix_status,
                   mandatory_status, summary, raised, exit_code, result>>

\* lines 187-189 with do_exit true: the summary, then sys.exit
MainExit ==
    /\ entry = "main"
    /\ pc = "summary"
    /\ do_exit
    /\ summary' = summary_rows(all_status)
    /\ trace' = Append(trace, <<"print_summary">>)
    /\ exit_code' = {exit_code_of(status)}
    /\ pc' = "exited"
    /\ UNCHANGED startedVars
    /\ UNCHANGED <<enable_auto_fix, files, cmd, hooks_failed, status,
                   autofix_status, mandatory_status, status_optional, all_status,
                   raised, result>>

\* lines 187-188 with do_exit false: the summary, then the function ends
\* without a return statement
MainReturn ==
    /\ entry = "main"
    /\ pc = "summary"
    /\ ~do_exit
    /\ summary' = summary_rows(all_status)
    /\ trace' = Append(trace, <<"print_summary">>)
    /\ result' = {}
    /\ pc' = "returned"
    /\ UNCHANGED startedVars
    /\ UNCHANGED <<enable_auto_fix, files, cmd, hooks_failed, status,
                   autofix_status, mandatory_status, status_optional, all_status,
                   raised, exit_code>>

\* the command is run again after a run that exited
RunAgain ==
    /\ entry = "main"
    /\ pc = "exited"
    /\ prev' = [valid |-> TRUE, enable_auto_fix |-> enable_auto_fix,
                autofix_status |-> autofix_status,
                mandatory_status |-> mandatory_status,
                optional_failed |-> status_optional # 0,
                hooks_failed |-> hooks_failed,
                exit_code |-> exit_code]
    /\ pc' = "start"
    /\ environ0' \in {{}, {<<PRECOMMIT_AUTOFIX, <<"1">>>>}}
    /\ environ' = environ0'
    /\ env_writes' = 0
    /\ repo' = repo0
    /\ overwrite' = TRUE
    /\ exclude_lint' = <<>>
    /\ disable_pylint_checks' = <<>>
    /\ enable_auto_fix' = FALSE
    /\ files' = <<>>
    /\ cmd' = <<>>
    /\ trace' = <<>>
    /\ hooks_failed' = FALSE
    /\ status' = 0
    /\ autofix_status' = 0
    /\ mandatory_status' = 0
    /\ status_optional' = 0
    /\ all_status' = <<>>
    /\ summary' = <<>>
    /\ raised' = ""
    /\ exit_code' = {}
    /\ result' = {}
    /\ UNCHANGED <<entry, parseVars, template, repo0, variables_sh, do_exit, cwd>>

NextMain ==
    \/ MainNotInRepo
    \/ MainLoadEnv
    \/ MainLoadEnvRaises
    \/ MainReadToggles
    \/ CopyCfgFiles
    \/ CopyCfgFilesRaises
    \/ MainInstallMandatory
    \/ MainInstallOptional
    \/ MainInstallAutofix
    \/ MainScopeAll
    \/ MainScopeFiles
    \/ MainScopeNoFiles
    \/ MainAutofix
    \/ MainMandatory
    \/ MainOptional
    \/ MainExit
    \/ MainReturn

Spec == InitMain /\ [][NextMain]_vars

NextRuns ==
    \/ MainNotInRepo
    \/ MainLoadEnv
    \/ MainReadToggles
    \/ CopyCfgFiles
    \/ MainInstallMandatory
    \/ MainInstallOptional
    \/ MainInstallAutofix
    \/ MainScopeAll
    \/ MainAutofix
    \/ MainMandatory
    \/ MainOptional
    \/ MainExit
    \/ RunAgain

SpecRuns == InitRuns /\ [][NextRuns]_vars

----------------------------------------------------------------------------
(* The parser's contract, stated on the parts of the line *)

AllIn(s, C) == \A i \in 1..Len(s) : s[i] \in C

\* "export" or "EXPORT", one or more spaces, a name of word characters,
\* spaces (possibly none) before "="; around an empty name the two runs of
\* spaces are one run
HeadForm(l) ==
    /\ l.kw \in {export, EXPORT}
    /\ AllIn(l.sep1, {" "})
    /\ AllIn(l.name, WordChars)
    /\ AllIn(l.sep2, {" "})
    /\ IF l.name = <<>> THEN Len(l.sep1) + Len(l.sep2) >= 1 ELSE Len(l.sep1) >= 1

\* spaces (possibly none) after "=", an optional quote, a value of the
\* permitted characters that ends where the line's permitted characters end
ValueForm(l) ==
    /\ AllIn(l.sep3, {" "})
    /\ AllIn(l.value, ValueChars)
    /\ l.oq = <<>> => ~StartsWith(l.value, <<" ">>)
    /\ l.cq = <<>> => ~(Head(l.tail) \in ValueChars \cup QuoteChars)

\* the form as the claim words it: the keyword in any mix of upper and lower
\* case, spaces or tabs around "="
LooseForm(l) ==
    /\ Len(l.kw) = Len(export)
    /\ \A i \in 1..Len(export) : l.kw[i] \in {export[i], EXPORT[i]}
    /\ Len(l.sep1) >= 1
    /\ AllIn(l.sep1, {" ", "\t"})
    /\ AllIn(l.name, WordChars)
    /\ AllIn(l.sep2, {" ", "\t"})
    /\ AllIn(l.sep3, {" ", "\t"})
    /\ AllIn(l.value, ValueChars)
    /\ l.oq = <<>> => ~StartsWith(l.value, <<" ">>)
    /\ l.cq = <<>> => ~(Head(l.tail) \in ValueChars \cup QuoteChars)

HasEntry(d, k, v) == DictHas(d, k) /\ DictGet(d, k) = v

LineConsumed == lines_read' = lines_read + 1

\* C9 (as amended): a line made of "export" or "EXPORT", at least one space,
\* a name of word characters, "=" with spaces (possibly none) on either side,
\* an optional quote, a value of the permitted characters and an optional
\* quote adds the entry name -> value; a line whose head is not of that shape
\* leaves the dict as it was; every key consists of word characters only.
C9_ExportLinesParsed ==
    [][LineConsumed =>
        /\ (HeadForm(line') /\ ValueForm(line')) =>
                HasEntry(envdict', line'.name, line'.value)
        /\ ~HeadForm(line') => envdict' = envdict
        /\ \A i \in 1..Len(envdict') : AllIn(envdict'[i][1], WordChars)]_vars

C9_Witness ==
    /\ entry = "envfile2envdict"
    /\ lines_read = 2
    /\ line.kw = EXPORT
    /\ line.sep2 = <<" ">>
    /\ line.oq # <<>>
    /\ HeadForm(line) /\ ValueForm(line)
    /\ HasEntry(envdict, line.name, line.value)

\* C9 as stated: the keyword matched case-insensitively, spaces or tabs
\* accepted around "="
C9_AsStated ==
    [][LineConsumed =>
        (LooseForm(line') => HasEntry(envdict', line'.name, line'.value))]_vars

----------------------------------------------------------------------------
(* The distributor's contract *)

EntriesAt(dir, fname) == {e \in dir : e.name = fname}

CopyEnded == entry = "copy_cfg_files" /\ pc \in {"copy_returned", "raised"}

\* C7: with overwrite false every file the target directory held before the
\* call is still there with the same content; whatever overwrite is, nothing
\* is created or changed under the name of a template entry that neither
\* starts with "." nor is pyproject.toml, or that is not a regular file.
C7_PinnedAndForeignUntouched ==
    CopyEnded =>
        /\ ~overwrite => \A e \in repo0 : e.kind = "file" => e \in repo
        /\ \A t \in template :
             ((Head(t.name) # "." /\ t.name # PYPROJECT_TOML) \/ t.kind # "file")
                => EntriesAt(repo, t.name) = EntriesAt(repo0, t.name)

C7_Witness ==
    /\ entry = "copy_cfg_files"
    /\ pc = "copy_returned"
    /\ ~overwrite
    /\ exclude_lint # <<>>
    /\ disable_pylint_checks # <<>>
    /\ File(PRE_COMMIT_CONFIG_YAML, <<CustomLine>>) \in repo0 \cap repo
    /\ File(README_MD, <<CustomLine>>) \in repo0 \cap repo
    /\ File(DOT_GITHUB, <<CustomLine>>) \in repo0 \cap repo
    /\ IsFile(repo, FLAKE8)

\* the template entries the call must have copied
MustCopy ==
    {t \in template : /\ t.kind = "file"
                      /\ Head(t.name) = "." \/ t.name = PYPROJECT_TOML
                      /\ overwrite \/ ~IsFile(repo0, t.name)}

\* the exclusion line built from the entries EXCLUDE_LINT was written from
ExpectedExcludeLine ==
    LET entries == CHOOSE x \in ExcludeEntries : ExcludeText(x) = exclude_lint
        NonEmpty(e) == e[2] # <<>>
        kept == SelectSeq(entries, NonEmpty)
    IN  <<" ", " ", " ", " ", "(">>
        \o Join([i \in 1..Len(kept) |-> re_escape(kept[i][2])], <<"|">>)
        \o <<")", "|", "\n">>

Patched(t) == StartsWith(t.name, PRE_COMMIT_CONFIG_PREFIX)

\* C8 (as amended): in a copied file whose name starts with .pre-commit-config,
\* with a non-empty exclusion list, a line containing the marker becomes the
\* four-space-indented escaped alternation of the trimmed non-empty entries
\* and no longer contains the marker; a line that is not so replaced and
\* contains --disable=R0000 has, when the disable token is non-empty, every
\* R0000 replaced by the token; every other line, and every line of a file of
\* another name, is copied verbatim.
C8_LinesPatched ==
    (entry = "copy_cfg_files" /\ pc = "copy_returned") =>
        \A t \in MustCopy :
            LET dst == EntryOf(repo, t.name).content
            IN  /\ IsFile(repo, t.name)
                /\ Len(dst) = Len(t.content)
                /\ \A i \in 1..Len(dst) :
                     IF /\ Patched(t) /\ exclude_lint # <<>>
                        /\ Contains(t.content[i], EXCLUDE_LINT_MARKER)
                     THEN /\ dst[i] = ExpectedExcludeLine
                          /\ ~Contains(dst[i], EXCLUDE_LINT_MARKER)
                     ELSE IF /\ Patched(t) /\ disable_pylint_checks # <<>>
                             /\ Contains(t.content[i], DISABLE_PLACEHOLDER)
                     THEN dst[i] = Replace(t.content[i], R0000, disable_pylint_checks)
                     ELSE dst[i] = t.content[i]

C8_Witness ==
    /\ entry = "copy_cfg_files"
    /\ pc = "copy_returned"
    /\ exclude_lint = ExcludeText(<< <<<<>>, <<"f", "o", "o">>, <<>>>>,
                                     <<<<" ">>, <<"b", "a", "r">>, <<>>>> >>)
    /\ disable_pylint_checks # <<>>
    /\ File(PRE_COMMIT_CONFIG_YAML, <<MarkerLine, DisableLine>>) \in template
    /\ \E e \in repo :
        /\ e.name = PRE_COMMIT_CONFIG_YAML
        /\ e.content[1] = <<" ", " ", " ", " ", "(", "f", "o", "o", "|", "b", "a", "r", ")", "|", "\n">>
        /\ e.content[2] # DisableLine
    /\ File(FLAKE8, <<MarkerLine, DisableLine>>) \in repo

\* C8 as stated: marker lines are replaced, no destination line contains the
\* marker afterwards, and lines without the marker are copied verbatim
C8_AsStated ==
    (entry = "copy_cfg_files" /\ pc = "copy_returned") =>
        \A t \in MustCopy :
            LET dst == EntryOf(repo, t.name).content
            IN  /\ IsFile(repo, t.name)
                /\ Len(dst) = Len(t.content)
                /\ \A i \in 1..Len(dst) :
                     IF /\ Patched(t) /\ exclude_lint # <<>>
                        /\ Contains(t.content[i], EXCLUDE_LINT_MARKER)
                     THEN dst[i] = ExpectedExcludeLine
                     ELSE dst[i] = t.content[i]
                /\ (Patched(t) /\ exclude_lint # <<>>) =>
                     \A i \in 1..Len(dst) : ~Contains(dst[i], EXCLUDE_LINT_MARKER)

----------------------------------------------------------------------------
(* The orchestrator's contract *)

Completed == entry = "main" /\ pc \in {"exited", "returned"}

IsPrefix(a, b) == Len(a) <= Len(b) /\ SubSeq(b, 1, Len(a)) = a

IsRun(c) == Len(c) >= 2 /\ c[1] = "pre-commit" /\ c[2] = "run"

\* C1: a run that exits does so with 0 exactly when the autofix exit code (if
\* the tier ran) and the mandatory exit code are both zero, and with 1
\* otherwise.
C1_ExitCodeZeroIffBothZero ==
    (entry = "main" /\ pc = "exited") =>
        exit_code = {IF (enable_auto_fix => autofix_status = 0) /\ mandatory_status = 0
                     THEN 0 ELSE 1}

\* C2: the exit code is a function of the autofix and mandatory exit codes:
\* a run exits with the code of the run before it whenever the two agree on
\* those, whatever the optional checker and the install-hooks calls returned;
\* without autofix and with mandatory exit code 0 the exit code is 0.
C2_ExitCodeIgnoresOptionalAndInstall ==
    (entry = "main" /\ pc = "exited") =>
        /\ ( /\ prev.valid
             /\ prev.enable_auto_fix = enable_auto_fix
             /\ prev.autofix_status = autofix_status
             /\ prev.mandatory_status = mandatory_status ) => exit_code = prev.exit_code
        /\ (~enable_auto_fix /\ mandatory_status = 0) => exit_code = {0}

C2_Witness ==
    /\ entry = "main"
    /\ pc = "exited"
    /\ prev.valid
    /\ ~enable_auto_fix /\ ~prev.enable_auto_fix
    /\ mandatory_status = 0 /\ prev.mandatory_status = 0
    /\ status_optional # 0 /\ ~prev.optional_failed
    /\ hooks_failed /\ ~prev.hooks_failed
    /\ exit_code = {0} /\ prev.exit_code = {0}

\* C3: away from the repository root with no tracked file the run ends in
\* UserWarning without having run a checker, printed a summary or exited;
\* every checker that is run gets --files and exactly the listed files away
\* from the root, and --all at the root.
C3_ScopeOfChecks ==
    entry = "main" =>
        /\ ( /\ cwd # repo_dirname
             /\ \E i \in 1..Len(trace) : trace[i] = <<"get_files", cwd>>
             /\ files = <<>> )
            => /\ pc = "raised"
               /\ raised = "UserWarning"
               /\ \A i \in 1..Len(trace) : ~IsRun(trace[i])
               /\ \A i \in 1..Len(trace) : trace[i] # <<"print_summary">>
               /\ summary = <<>>
               /\ exit_code = {}
        /\ \A i \in 1..Len(trace) :
             IsRun(trace[i]) =>
                /\ SubSeq(trace[i], 4, Len(trace[i]) - 2)
                     = IF cwd = repo_dirname THEN <<"--all">> ELSE <<"--files">> \o files
                /\ cwd # repo_dirname => files # <<>>

C3_Witness ==
    /\ entry = "main"
    /\ pc = "raised"
    /\ raised = "UserWarning"
    /\ enable_auto_fix
    /\ do_exit
    /\ Len(trace) = 6

\* the steps of a whole run, from the environment and the directory it runs in
ExpectedScope == IF cwd = repo_dirname THEN <<"--all">> ELSE <<"--files">> \o files

ExpectedRun(cfg) ==
    <<"pre-commit", "run", "--color=always">> \o ExpectedScope \o <<"-c", cfg>>

ExpectedInstall(cfg) == <<"pre-commit", "install-hooks", "--color=always", "-c", cfg>>

ExpectedTrace ==
    LET autofix == \E p \in environ : p = <<PRECOMMIT_AUTOFIX, <<"1">>>>
    IN  <<<<"get_repo">>, <<"copy_cfg_files">>,
          ExpectedInstall("/repo/.pre-commit-config.yaml"),
          ExpectedInstall("/repo/.pre-commit-config-optional.yaml")>>
        \o (IF autofix THEN <<ExpectedInstall("/repo/.pre-commit-config-autofix.yaml")>>
            ELSE <<>>)
        \o (IF cwd = repo_dirname THEN <<>> ELSE <<<<"get_files", cwd>>>>)
        \o (IF autofix THEN <<ExpectedRun("/repo/.pre-commit-config-autofix.yaml")>>
            ELSE <<>>)
        \o <<ExpectedRun("/repo/.pre-commit-config.yaml"),
             ExpectedRun("/repo/.pre-commit-config-optional.yaml"),
             <<"print_summary">>>>

\* C4: the steps taken are always an initial part of: get_repo, the
\* configuration copy, install-hooks for mandatory, for optional and (only
\* with PRECOMMIT_AUTOFIX = "1") for autofix, the file listing (away from the
\* root), the autofix checker (only with PRECOMMIT_AUTOFIX = "1"), the
\* mandatory checker, the optional checker, the summary; a completed run has
\* taken all of them, each once.
C4_FixedOrderOfSteps ==
    entry = "main" =>
        /\ IsPrefix(trace, ExpectedTrace)
        /\ Completed => trace = ExpectedTrace

C4_Witness ==
    /\ Completed
    /\ enable_auto_fix
    /\ cwd # repo_dirname
    /\ Len(files) = MaxFiles
    /\ Len(trace) = 10
    /\ hooks_failed

\* C5: with do_exit false the call returns and its result is the aggregate
\* status.
C5_StatusReturned ==
    (entry = "main" /\ pc = "returned") => result = {status}

\* the value variables.sh gives a name: that of the last line assigning it
AssigningLines(name) ==
    {i \in 1..Len(variables_sh.lines) :
        HeadForm(variables_sh.lines[i]) /\ variables_sh.lines[i].name = name}

Max(S) == CHOOSE x \in S : \A y \in S : y <= x

ExpectedHas(name) ==
    (variables_sh.exists /\ AssigningLines(name) # {}) \/ (\E p \in environ0 : p[1] = name)

ExpectedValue(name, default) ==
    IF variables_sh.exists /\ AssigningLines(name) # {}
    THEN variables_sh.lines[Max(AssigningLines(name))].value
    ELSE IF \E p \in environ0 : p[1] = name
    THEN (CHOOSE p \in environ0 : p[1] = name)[2]
    ELSE default

ToggleNames ==
    {PRECOMMIT_OVERWRITE_CONFIG_FILES, EXCLUDE_LINT, DISABLE_PYLINT_CHECKS,
     PRECOMMIT_AUTOFIX}

Merged == entry = "main" /\ pc # "start" /\ ~(raised \in {"CalledProcessError", "OSError"})

TogglesRead == Merged /\ pc # "read_toggles"

\* C6: os.environ is written by one call per run; from the merge on, each of
\* the four names holds the value of the last line of variables.sh assigning
\* it, else the inherited value, else nothing; the toggles the run uses are
\* those values, with the defaults "1", empty, empty, empty.
C6_EnvironmentMergedOnce ==
    entry = "main" =>
        /\ env_writes <= 1
        /\ Merged =>
            /\ env_writes = 1
            /\ \A name \in ToggleNames :
                /\ EnvironHas(environ, name) <=> ExpectedHas(name)
                /\ EnvironGet(environ, name, <<>>) = ExpectedValue(name, <<>>)
        /\ TogglesRead =>
            /\ overwrite = (ExpectedValue(PRECOMMIT_OVERWRITE_CONFIG_FILES, <<"1">>) = <<"1">>)
            /\ exclude_lint = ExpectedValue(EXCLUDE_LINT, <<>>)
            /\ disable_pylint_checks = ExpectedValue(DISABLE_PYLINT_CHECKS, <<>>)
            /\ enable_auto_fix = (ExpectedValue(PRECOMMIT_AUTOFIX, <<>>) = <<"1">>)

C6_Witness ==
    /\ Completed
    /\ Len(variables_sh.lines) = 2
    /\ variables_sh.lines[1].name = PRECOMMIT_AUTOFIX
    /\ variables_sh.lines[1].value = <<"1">>
    /\ variables_sh.lines[2].name = PRECOMMIT_AUTOFIX
    /\ variables_sh.lines[2].value = <<"0">>
    /\ <<PRECOMMIT_AUTOFIX, <<"1">>>> \in environ0
    /\ <<EXCLUDE_LINT, <<"a", ".", "b">>>> \in environ0
    /\ ~enable_auto_fix
    /\ exclude_lint = <<"a", ".", "b">>
    /\ ~overwrite

ExpectedAllStatus ==
    (IF enable_auto_fix
     THEN <<[test_name |-> "Autofix checks", status |-> autofix_status,
             level |-> IF autofix_status # 0 THEN "ERROR" ELSE "INFO",
             status_msg |-> IF autofix_status # 0 THEN "Reformatted" ELSE "Passed"]>>
     ELSE <<>>)
    \o <<[test_name |-> "Mandatory checks", status |-> mandatory_status,
          level |-> IF (IF enable_auto_fix THEN autofix_status ELSE 0)
                        + mandatory_status # 0 THEN "ERROR" ELSE "INFO",
          status_msg |-> IF (IF enable_auto_fix THEN autofix_status ELSE 0)
                             + mandatory_status # 0 THEN "Failed" ELSE "Passed"],
         [test_name |-> "Optional checks", status |-> status_optional,
          level |-> IF status_optional # 0 THEN "WARNING" ELSE "INFO",
          status_msg |-> IF status_optional # 0 THEN "Failed" ELSE "Passed"]>>

====
